---- MODULE Spec2Model ----
(***************************************************************************)
(* A model of the analytics core of oilers-analytics: the Corsi flow       *)
(* builder, the possession metrics and the xG estimator of                 *)
(* client/src/utils/statsCalculations.ts, with the time helpers of         *)
(* client/src/utils/rinkCoordinates.ts.                                    *)
(*                                                                         *)
(* Strings are sequences of one-character strings, so that toLowerCase,    *)
(* split, Number and localeCompare are computed character by character.    *)
(***************************************************************************)
EXTENDS Integers, Sequences, FiniteSets, TLC

VARIABLES homeShots, awayShots, flow, returned, call, ret, cache, calls, warmup, api

vars == <<homeShots, awayShots, flow, returned, call, ret, cache, calls, warmup, api>>

flowVars == <<homeShots, awayShots, flow, returned>>

pureVars == <<call, ret>>

cacheVars == <<cache, calls>>

clientVars == <<warmup, api>>

(***************************************************************************)
(* Bounds                                                                  *)
(***************************************************************************)
\* total number of shots in the two argument arrays of generateCorsiFlow
MaxShots == 3

\* length of the event list handed to calculateCorsiFor / calculateFenwickFor
MaxEvents == 3

\* counts handed to the percentage functions and to calculatePDO lie in
\* -MaxCount..MaxCount
MaxCount == 3

\* period numbers handed to timeToSeconds lie in 1..MaxPeriod
MaxPeriod == 4

\* requests that can be in flight at the same time
MaxCalls == 2

\* games in the season schedule the upstream answers with
MaxGames == 22

\* plays in the play-by-play the upstream answers with
MaxPlays == 3

\* calls of refetch by one useApiCall hook
MaxRequests == 4

(***************************************************************************)
(* Strings                                                                 *)
(***************************************************************************)
Digits == <<"0", "1", "2", "3", "4", "5", "6", "7", "8", "9">>

IsDigit(c) == \E i \in 1..10 : Digits[i] = c

DigitVal(c) == (CHOOSE i \in 1..10 : Digits[i] = c) - 1

\* Primary collation weight used by String.prototype.localeCompare (root
\* collation): punctuation sorts before digits, digits in numeric order.
CollationRank(c) == IF IsDigit(c) THEN DigitVal(c) + 1 ELSE 0

RECURSIVE localeCompareFrom(_, _, _)

\* the receiver and the argument exchanged: b.localeCompare(a)
localeCompareReversed(a, b) == localeCompareFrom(b, a, 1)

localeCompareFrom(a, b, i) ==
  IF i > Len(a) /\ i > Len(b) THEN 0
  ELSE IF i > Len(a) THEN -1
  ELSE IF i > Len(b) THEN 1
  ELSE IF CollationRank(a[i]) < CollationRank(b[i]) THEN -1
  ELSE IF CollationRank(a[i]) > CollationRank(b[i]) THEN 1
  ELSE localeCompareFrom(a, b, i + 1)

localeCompare(a, b) == localeCompareFrom(a, b, 1)

\* IEEE NaN, kept apart from every value the model computes
NaN == -999999

IsNaN(v) == v = NaN

Add(a, b) == IF IsNaN(a) \/ IsNaN(b) THEN NaN ELSE a + b

Mul(a, b) == IF IsNaN(a) \/ IsNaN(b) THEN NaN ELSE a * b

\* String.prototype.split with a one-character separator
RECURSIVE splitFrom(_, _, _, _)
splitFrom(str, sep, i, cur) ==
  IF i > Len(str) THEN <<cur>>
  ELSE IF str[i] = sep THEN <<cur>> \o splitFrom(str, sep, i + 1, <<>>)
  ELSE splitFrom(str, sep, i + 1, Append(cur, str[i]))

split(str, sep) == splitFrom(str, sep, 1, <<>>)

\* Number(string) for strings of decimal digits and letters that belong to
\* no numeric literal: the empty string is 0 and a string holding a letter
\* is NaN
RECURSIVE digitsValue(_, _)
digitsValue(str, acc) ==
  IF str = <<>> THEN acc
  ELSE digitsValue(Tail(str), acc * 10 + DigitVal(Head(str)))

RECURSIVE leadingDigits(_)
leadingDigits(str) ==
  IF str = <<>> \/ ~IsDigit(Head(str)) THEN <<>>
  ELSE <<Head(str)>> \o leadingDigits(Tail(str))

\* a conversion that reads the leading digits and stops, as parseInt does
NumberLeadingDigits(str) ==
  IF leadingDigits(str) = <<>> THEN NaN ELSE digitsValue(leadingDigits(str), 0)

Number(str) ==
  IF \A i \in 1..Len(str) : IsDigit(str[i]) THEN digitsValue(str, 0) ELSE NaN

\* a conversion that takes the period number for the number of periods played
timeToSecondsPeriodNotReduced(time, period) ==
  LET parts == split(time, ":")
      minutes == IF Len(parts) >= 1 THEN Number(parts[1]) ELSE NaN
      seconds == IF Len(parts) >= 2 THEN Number(parts[2]) ELSE NaN
      periodSeconds == period * 20 * 60
  IN Add(Add(periodSeconds, Mul(minutes, 60)), seconds)

\* const [minutes, seconds] = time.split(':').map(Number): an element the
\* array does not have is undefined, and undefined in arithmetic is NaN
timeToSeconds(time, period) ==
  LET parts == split(time, ":")
      minutes == IF Len(parts) >= 1 THEN Number(parts[1]) ELSE NaN
      seconds == IF Len(parts) >= 2 THEN Number(parts[2]) ELSE NaN
      periodSeconds == (period - 1) * 20 * 60
  IN Add(Add(periodSeconds, Mul(minutes, 60)), seconds)

\* split, map(Number) and the arithmetic of timeToSeconds have no throw
\* statement and raise no exception for a string argument
timeToSecondsThrows(time, period) == FALSE

\* Number.prototype.toString for an integer >= 0, and for NaN
RECURSIVE toStringDigits(_)
toStringDigits(n) ==
  IF n < 10 THEN <<Digits[n + 1]>>
  ELSE Append(toStringDigits(n \div 10), Digits[(n % 10) + 1])

toString(n) == IF IsNaN(n) THEN <<"N", "a", "N">> ELSE toStringDigits(n)

\* String.prototype.padStart with a one-character filler
RECURSIVE padStart(_, _, _)
padStart(str, targetLength, fill) ==
  IF Len(str) >= targetLength THEN str
  ELSE padStart(<<fill>> \o str, targetLength, fill)

\* a formatter that forgets the padding
secondsToTimeUnpadded(totalSeconds) ==
  LET minutes == IF IsNaN(totalSeconds) THEN NaN ELSE totalSeconds \div 60
      seconds == IF IsNaN(totalSeconds) THEN NaN ELSE totalSeconds % 60
  IN toString(minutes) \o <<":">> \o toString(seconds)

secondsToTime(totalSeconds) ==
  LET minutes == IF IsNaN(totalSeconds) THEN NaN ELSE totalSeconds \div 60
      seconds == IF IsNaN(totalSeconds) THEN NaN ELSE totalSeconds % 60
  IN padStart(toString(minutes), 2, "0") \o <<":">> \o padStart(toString(seconds), 2, "0")

(***************************************************************************)
(* Possession metrics: event classification                                *)
(***************************************************************************)
CORSI_EVENTS == {"shot-on-goal", "missed-shot", "blocked-shot", "goal"}

\* a Fenwick list that still holds the blocked shots
FENWICK_EVENTS_WithBlocked == {"shot-on-goal", "missed-shot", "blocked-shot", "goal"}

FENWICK_EVENTS == {"shot-on-goal", "missed-shot", "goal"}

RECURSIVE CountIn(_, _)
CountIn(shots, kinds) ==
  IF shots = <<>> THEN 0
  ELSE (IF Head(shots).type \in kinds THEN 1 ELSE 0) + CountIn(Tail(shots), kinds)

calculateCorsiFor(shots) == CountIn(shots, CORSI_EVENTS)

calculateFenwickFor(shots) == CountIn(shots, FENWICK_EVENTS)

(***************************************************************************)
(* JavaScript numbers as exact fractions num/den in lowest terms, den >= 0: *)
(* 1/0 is Infinity, -1/0 is -Infinity and 0/0 is NaN.                      *)
(***************************************************************************)
Abs(n) == IF n < 0 THEN -n ELSE n

Sign(n) == IF n < 0 THEN -1 ELSE IF n > 0 THEN 1 ELSE 0

RECURSIVE GCD(_, _)
GCD(a, b) == IF b = 0 THEN a ELSE GCD(b, a % b)

Frac(n, d) ==
  IF d = 0 THEN [num |-> Sign(n), den |-> 0]
  ELSE LET g == GCD(Abs(n), Abs(d))
       IN [num |-> Sign(d) * (n \div g), den |-> Abs(d) \div g]

Num(n) == [num |-> n, den |-> 1]

FracNaN == [num |-> 0, den |-> 0]

IsFinite(a) == a.den # 0

FracAdd(a, b) ==
  IF a.den = 0 /\ b.den = 0
    THEN (IF a.num = b.num THEN a ELSE FracNaN)
    ELSE Frac(a.num * b.den + b.num * a.den, a.den * b.den)

FracSub(a, b) == FracAdd(a, [num |-> -b.num, den |-> b.den])

FracMul(a, b) == Frac(a.num * b.num, a.den * b.den)

FracDiv(a, b) ==
  IF (a.den = 0 /\ a.num = 0) \/ (b.den = 0 /\ b.num = 0) THEN FracNaN
  ELSE LET n == a.num * b.den
           d == a.den * b.num
       IN IF d = 0 /\ n = 0 THEN FracNaN
          ELSE IF d = 0 THEN [num |-> Sign(n) * (IF b.num < 0 THEN -1 ELSE 1), den |-> 0]
          ELSE Frac(n, d)

\* a > b and a === b of JavaScript: false whenever an operand is NaN
FracGT(a, b) ==
  /\ a # FracNaN
  /\ b # FracNaN
  /\ a.num * b.den > b.num * a.den

FracStrictEq(a, b) == a # FracNaN /\ b # FracNaN /\ a = b

(***************************************************************************)
(* Possession metrics: percentages and PDO                                 *)
(***************************************************************************)
\* a percentage that divides without looking at the total
percentWithoutZeroCheck(corsiFor, corsiAgainst) ==
  FracMul(FracDiv(corsiFor, FracAdd(corsiFor, corsiAgainst)), Num(100))

calculateCorsiPercent(corsiFor, corsiAgainst) ==
  LET total == FracAdd(corsiFor, corsiAgainst)
  IN IF FracStrictEq(total, Num(0)) THEN Num(50)
     ELSE FracMul(FracDiv(corsiFor, total), Num(100))

calculateFenwickPercent(fenwickFor, fenwickAgainst) ==
  LET total == FracAdd(fenwickFor, fenwickAgainst)
  IN IF FracStrictEq(total, Num(0)) THEN Num(50)
     ELSE FracMul(FracDiv(fenwickFor, total), Num(100))

calculateGoalsForPercent(goalsFor, goalsAgainst) ==
  LET total == FracAdd(goalsFor, goalsAgainst)
  IN IF FracStrictEq(total, Num(0)) THEN Num(50)
     ELSE FracMul(FracDiv(goalsFor, total), Num(100))

\* a PDO whose save percentage is 0 when no shot was faced
calculatePDOZeroSave(goalsFor, shotsFor, goalsAgainst, shotsAgainst) ==
  LET shootingPct == IF FracGT(shotsFor, Num(0))
                       THEN FracMul(FracDiv(goalsFor, shotsFor), Num(100))
                       ELSE Num(0)
      savePct == IF FracGT(shotsAgainst, Num(0))
                   THEN FracMul(FracDiv(FracSub(shotsAgainst, goalsAgainst), shotsAgainst),
                                Num(100))
                   ELSE Num(0)
  IN FracAdd(shootingPct, savePct)

calculatePDO(goalsFor, shotsFor, goalsAgainst, shotsAgainst) ==
  LET shootingPct == IF FracGT(shotsFor, Num(0))
                       THEN FracMul(FracDiv(goalsFor, shotsFor), Num(100))
                       ELSE Num(0)
      savePct == IF FracGT(shotsAgainst, Num(0))
                   THEN FracMul(FracDiv(FracSub(shotsAgainst, goalsAgainst), shotsAgainst),
                                Num(100))
                   ELSE Num(100)
  IN FracAdd(shootingPct, savePct)

(***************************************************************************)
(* Expected-goals estimator: estimateXG                                    *)
(*                                                                         *)
(* Probabilities are integers in units of 0.0001, distances in hundredths  *)
(* of a foot and angles in hundredths of a degree.                         *)
(***************************************************************************)
UpperCase ==
  <<"A", "B", "C", "D", "E", "F", "G", "H", "I", "J", "K", "L", "M", "N", "O", "P", "Q", "R", "S", "T", "U", "V", "W", "X", "Y", "Z">>

LowerCase ==
  <<"a", "b", "c", "d", "e", "f", "g", "h", "i", "j", "k", "l", "m", "n", "o", "p", "q", "r", "s", "t", "u", "v", "w", "x", "y", "z">>

toLowerCaseChar(c) ==
  IF \E i \in 1..26 : UpperCase[i] = c
    THEN LowerCase[CHOOSE i \in 1..26 : UpperCase[i] = c]
    ELSE c

\* String.prototype.toLowerCase
toLowerCase(str) == [i \in 1..Len(str) |-> toLowerCaseChar(str[i])]

\* an absent optional argument
Undefined == <<"undefined">>

S_slap == <<"s", "l", "a", "p">>
S_snap == <<"s", "n", "a", "p">>
S_wrist == <<"w", "r", "i", "s", "t">>
S_backhand == <<"b", "a", "c", "k", "h", "a", "n", "d">>
S_tip_in == <<"t", "i", "p", "-", "i", "n">>
S_deflected == <<"d", "e", "f", "l", "e", "c", "t", "e", "d">>
S_wrap_around == <<"w", "r", "a", "p", "-", "a", "r", "o", "u", "n", "d">>
S_TIP_IN == <<"T", "I", "P", "-", "I", "N">>
S_Wrist == <<"W", "r", "i", "s", "t">>
S_poke == <<"p", "o", "k", "e">>
S_empty == <<>>
S_constructor == <<"c", "o", "n", "s", "t", "r", "u", "c", "t", "o", "r">>
S_proto == <<"_", "_", "p", "r", "o", "t", "o", "_", "_">>
S_toString == <<"t", "o", "S", "t", "r", "i", "n", "g">>
S_valueOf == <<"v", "a", "l", "u", "e", "O", "f">>

\* the own properties of the typeMultipliers object, in tenths
typeMultipliers ==
  (S_slap :> 9) @@ (S_snap :> 11) @@ (S_wrist :> 10) @@ (S_backhand :> 8)
    @@ (S_tip_in :> 13) @@ (S_deflected :> 12) @@ (S_wrap_around :> 6)

\* typeMultipliers is an object literal: a key it does not own is looked up
\* in Object.prototype, whose properties are functions and objects
ObjectPrototypeKeys == {S_constructor, S_proto, S_toString, S_valueOf}

\* typeMultipliers[key] || 1.0, as the factor of xG *= ...: an own property
\* gives its number, an inherited one a function or object, which the
\* multiplication converts to NaN, and a missing one undefined, hence 1.0
multiplierFor(key) ==
  IF key \in DOMAIN typeMultipliers THEN typeMultipliers[key]
  ELSE IF key \in ObjectPrototypeKeys THEN NaN
  ELSE 10

\* Math.max and Math.min return NaN when an argument is NaN
MathMax(a, b) == IF IsNaN(a) \/ IsNaN(b) THEN NaN ELSE IF a >= b THEN a ELSE b

MathMin(a, b) == IF IsNaN(a) \/ IsNaN(b) THEN NaN ELSE IF a <= b THEN a ELSE b

RECURSIVE sqrtBetween(_, _, _)
sqrtBetween(n, lo, hi) ==
  IF lo = hi THEN lo
  ELSE LET mid == (lo + hi + 1) \div 2
       IN IF mid * mid <= n THEN sqrtBetween(n, mid, hi)
          ELSE sqrtBetween(n, lo, mid - 1)

\* Math.sqrt of an integer number of square feet, in hundredths of a foot
MathSqrt(n) == sqrtBetween(n * 10000, 0, 40000)

\* atan(p / q) for 0 < p <= q in hundredths of a degree:
\* 45 z + 15.64 z (1 - z) with z = p / q, within 0.25 degrees of the arctangent
atanRatio(p, q) == (4500 * p * q + 1564 * p * (q - p)) \div (q * q)

\* Math.abs(Math.atan2(y, x)) * (180 / Math.PI), in hundredths of a degree
absAtan2Degrees(y, x) ==
  LET ay == Abs(y)
      ax == Abs(x)
      acute == IF ay = 0 THEN 0
               ELSE IF ax = 0 THEN 9000
               ELSE IF ay <= ax THEN atanRatio(ay, ax)
               ELSE 9000 - atanRatio(ax, ay)
  IN IF x >= 0 THEN acute ELSE 18000 - acute

\* an estimator that measures from the signed x
xGByLocationSigned(x, y) ==
  LET goalX == 89
      goalY == 0
      distance == MathSqrt((x - goalX) * (x - goalX) + (y - goalY) * (y - goalY))
      angle == absAtan2Degrees(y, goalX - x)
      base == MathMax(0, 4000 - (distance * 80) \div 100)
  IN (base * (18000 - angle)) \div 18000

\* lines 86-96: the base value by distance, then the angle adjustment
xGByLocation(x, y) ==
  LET goalX == 89
      goalY == 0
      distance == MathSqrt((Abs(x) - goalX) * (Abs(x) - goalX)
                             + (y - goalY) * (y - goalY))
      angle == absAtan2Degrees(y, goalX - Abs(x))
      base == MathMax(0, 4000 - (distance * 80) \div 100)
  IN (base * (18000 - angle)) \div 18000

\* Math.min(Math.max(xG, 0.01), 0.95)
clampXG(xG) == MathMin(MathMax(xG, 100), 9500)

estimateXG(x, y, shotType) ==
  LET located == xGByLocation(x, y)
      truthy == shotType # Undefined /\ shotType # <<>>
      factor == IF truthy THEN multiplierFor(toLowerCase(shotType)) ELSE 10
      xG == IF truthy
              THEN (IF IsNaN(factor) THEN NaN ELSE (located * factor) \div 10)
              ELSE located
  IN clampXG(xG)

(***************************************************************************)
(* Coordinate mapper: rinkCoordinates.ts                                   *)
(***************************************************************************)
\* RINK.SVG_WIDTH and RINK.SVG_HEIGHT, in pixels
SVG_WIDTH == 800

SVG_HEIGHT == 340

\* a conversion that scales both coordinates by the width
nhlToSvgWidthTwice(x, y) ==
  [x |-> FracMul(FracDiv(FracAdd(x, Num(100)), Num(200)), Num(SVG_WIDTH)),
   y |-> FracMul(FracDiv(FracAdd(y, Frac(85, 2)), Num(85)), Num(SVG_WIDTH))]

nhlToSvg(x, y) ==
  [x |-> FracMul(FracDiv(FracAdd(x, Num(100)), Num(200)), Num(SVG_WIDTH)),
   y |-> FracMul(FracDiv(FracAdd(y, Frac(85, 2)), Num(85)), Num(SVG_HEIGHT))]

\* a normalisation that mirrors x and leaves y as it is
normalizeMirrorXOnly(x, y) ==
  IF x < 0 THEN [x |-> -x, y |-> y] ELSE [x |-> x, y |-> y]

normalizeToAttackingZone(x, y) ==
  IF x < 0 THEN [x |-> -x, y |-> -y] ELSE [x |-> x, y |-> y]

(***************************************************************************)
(* Flow builder: generateCorsiFlow                                         *)
(***************************************************************************)
T0010 == <<"0", "0", ":", "1", "0">>
T0500 == <<"0", "5", ":", "0", "0">>
T1000 == <<"1", "0", ":", "0", "0">>
\* a clock string whose minutes are not zero-padded
T930 == <<"9", ":", "3", "0">>

Periods == {1, 2}

Times == {T0500, T1000, T930}

ShotPool ==
  [period : Periods, time : Times, type : {"goal", "hit"}]
    \cup {[period |-> 1, time |-> T1000, type |-> "shot-on-goal"],
          [period |-> 2, time |-> T0010, type |-> "blocked-shot"]}

\* homeShots.map(s => ({ ...s, team: 'home' }))
Tag(shots, team) ==
  [i \in 1..Len(shots) |->
     [period |-> shots[i].period, time |-> shots[i].time,
      type |-> shots[i].type, team |-> team]]

\* a comparator that forgets the period
compareShotsTimeOnly(a, b) == localeCompare(a.time, b.time)

\* the comparator handed to Array.prototype.sort
compareShots(a, b) ==
  IF a.period # b.period THEN a.period - b.period
  ELSE localeCompare(a.time, b.time)

\* Array.prototype.sort is stable: x goes behind every element that does not
\* compare greater than it.
RECURSIVE InsertSorted(_, _)
InsertSorted(x, s) ==
  IF s = <<>> THEN <<x>>
  ELSE IF compareShots(Head(s), x) <= 0 THEN <<Head(s)>> \o InsertSorted(x, Tail(s))
  ELSE <<x>> \o s

RECURSIVE SortShots(_)
SortShots(s) ==
  IF s = <<>> THEN <<>>
  ELSE InsertSorted(s[Len(s)], SortShots(SubSeq(s, 1, Len(s) - 1)))

allShots(home, away) == SortShots(Tag(home, "home") \o Tag(away, "away"))

\* a builder that forgets the filter
FilterCorsiNone(s) == s

FilterCorsi(s) == SelectSeq(s, LAMBDA shot : shot.type \in CORSI_EVENTS)

\* let homeCorsi = 0; let awayCorsi = 0;
InitialCorsi == 0

\* a builder that takes the difference the wrong way round
RECURSIVE MapFlowAwayMinusHome(_, _, _)
MapFlowAwayMinusHome(s, homeCorsi, awayCorsi) ==
  IF s = <<>> THEN <<>>
  ELSE LET shot == Head(s)
           h == IF shot.team = "home" THEN homeCorsi + 1 ELSE homeCorsi
           a == IF shot.team = "home" THEN awayCorsi ELSE awayCorsi + 1
       IN <<[period |-> shot.period, time |-> shot.time,
             timeRemaining |-> shot.time, type |-> shot.type,
             homeCorsi |-> h, awayCorsi |-> a, differential |-> a - h]>>
            \o MapFlowAwayMinusHome(Tail(s), h, a)

RECURSIVE MapFlow(_, _, _)
MapFlow(s, homeCorsi, awayCorsi) ==
  IF s = <<>> THEN <<>>
  ELSE LET shot == Head(s)
           h == IF shot.team = "home" THEN homeCorsi + 1 ELSE homeCorsi
           a == IF shot.team = "home" THEN awayCorsi ELSE awayCorsi + 1
       IN <<[period |-> shot.period, time |-> shot.time,
             timeRemaining |-> shot.time, type |-> shot.type,
             homeCorsi |-> h, awayCorsi |-> a, differential |-> h - a]>>
            \o MapFlow(Tail(s), h, a)

generateCorsiFlow(home, away) ==
  MapFlow(FilterCorsi(allShots(home, away)), InitialCorsi, InitialCorsi)

Untag(shots) ==
  [i \in 1..Len(shots) |->
     [period |-> shots[i].period, time |-> shots[i].time, type |-> shots[i].type]]

\* a builder that sorts each argument array in place before merging
ArgsAfterCallSortedInPlace(home, away) ==
  <<Untag(SortShots(Tag(home, "home"))), Untag(SortShots(Tag(away, "away")))>>

\* what a call leaves in the caller's two arrays: the spread and the map
\* build new objects, the sort works on the merged copy
ArgsAfterCall(home, away) == <<home, away>>

\* the caller appends a shot to one of the arrays it will pass
PushHome(s) ==
  /\ Len(homeShots) + Len(awayShots) < MaxShots
  /\ homeShots' = Append(homeShots, s)
  /\ flow' = <<>>
  /\ returned' = FALSE
  /\ UNCHANGED <<awayShots, pureVars, cacheVars, clientVars>>

PushAway(s) ==
  /\ Len(homeShots) + Len(awayShots) < MaxShots
  /\ awayShots' = Append(awayShots, s)
  /\ flow' = <<>>
  /\ returned' = FALSE
  /\ UNCHANGED <<homeShots, pureVars, cacheVars, clientVars>>

ClearShots ==
  /\ homeShots' = <<>>
  /\ awayShots' = <<>>
  /\ flow' = <<>>
  /\ returned' = FALSE
  /\ UNCHANGED <<pureVars, cacheVars, clientVars>>

CallGenerateCorsiFlow ==
  /\ flow' = generateCorsiFlow(homeShots, awayShots)
  /\ homeShots' = ArgsAfterCall(homeShots, awayShots)[1]
  /\ awayShots' = ArgsAfterCall(homeShots, awayShots)[2]
  /\ returned' = TRUE
  /\ UNCHANGED <<pureVars, cacheVars, clientVars>>

(***************************************************************************)
(* Properties of the flow builder                                          *)
(***************************************************************************)
PrevHome(i) == IF i = 1 THEN 0 ELSE flow[i - 1].homeCorsi

PrevAway(i) == IF i = 1 THEN 0 ELSE flow[i - 1].awayCorsi

\* C1: in the sequence generateCorsiFlow returns, homeCorsi and awayCorsi
\* never decrease from one point to the next and every point has
\* differential = homeCorsi - awayCorsi.
C1_FlowMonotone ==
  returned =>
    \A i \in 1..Len(flow) :
      /\ flow[i].differential = flow[i].homeCorsi - flow[i].awayCorsi
      /\ i > 1 => /\ flow[i].homeCorsi >= flow[i - 1].homeCorsi
                  /\ flow[i].awayCorsi >= flow[i - 1].awayCorsi

\* a returned flow in which each counter has grown and the differential has
\* been negative
C1_Witness ==
  /\ returned
  /\ Len(flow) = 3
  /\ flow[1].differential = -1
  /\ flow[3].homeCorsi = 2
  /\ flow[3].awayCorsi = 1

\* C2: every point raises exactly one counter by exactly 1 over the previous
\* point (over 0/0 for the first), the home counter exactly when the event
\* came from homeShots; the flow has corsiFor(home) + corsiFor(away) points
\* and its last point carries the two Corsi counts.
C2_OneStepPerEvent ==
  returned =>
    LET events == FilterCorsi(allShots(homeShots, awayShots))
        cfHome == calculateCorsiFor(homeShots)
        cfAway == calculateCorsiFor(awayShots)
    IN /\ Len(flow) = cfHome + cfAway
       /\ Len(events) = Len(flow)
       /\ \A i \in 1..Len(flow) :
            /\ \/ /\ flow[i].homeCorsi = PrevHome(i) + 1
                  /\ flow[i].awayCorsi = PrevAway(i)
               \/ /\ flow[i].homeCorsi = PrevHome(i)
                  /\ flow[i].awayCorsi = PrevAway(i) + 1
            /\ flow[i].homeCorsi = PrevHome(i) + 1 <=> events[i].team = "home"
       /\ flow # <<>> => /\ flow[Len(flow)].homeCorsi = cfHome
                         /\ flow[Len(flow)].awayCorsi = cfAway

\* a call whose arguments hold a play that is no shot attempt: three events
\* in, two points out, one from each side
C2_Witness ==
  /\ returned
  /\ Len(homeShots) + Len(awayShots) = 3
  /\ Len(flow) = 2
  /\ flow[2].homeCorsi = 1
  /\ flow[2].awayCorsi = 1

PointLE(p, q) ==
  \/ p.period < q.period
  \/ p.period = q.period /\ localeCompare(p.time, q.time) <= 0

PointLT(p, q) ==
  \/ p.period < q.period
  \/ p.period = q.period /\ localeCompare(p.time, q.time) < 0

\* C3 as stated: each point's (period, time) is strictly greater than that of
\* the point before it.
C3_StrictlyOrdered ==
  returned => \A i \in 2..Len(flow) : PointLT(flow[i - 1], flow[i])

\* C3 as amended: each point's (period, time) is greater than or equal to
\* that of the point before it, periods compared as numbers and times as
\* strings; two events of the same period and clock time give two points
\* with equal keys.
C3_Ordered ==
  returned => \A i \in 2..Len(flow) : PointLE(flow[i - 1], flow[i])

\* a returned flow holding two points of the same period and clock time and
\* a later point of a later period
C3_Witness ==
  /\ returned
  /\ Len(flow) = 3
  /\ flow[1].period = flow[2].period
  /\ flow[1].time = flow[2].time
  /\ flow[2].period < flow[3].period

IsZeroPadded(time) ==
  /\ Len(time) = 5
  /\ time[3] = ":"
  /\ \A i \in {1, 2, 4, 5} : IsDigit(time[i])

AllZeroPadded(shots) == \A i \in 1..Len(shots) : IsZeroPadded(shots[i].time)

InitFlow ==
  /\ homeShots = <<>>
  /\ awayShots = <<>>
  /\ flow = <<>>
  /\ returned = FALSE
  /\ call = [fn |-> "none"]
  /\ ret = 0
  /\ cache = <<>>
  /\ calls = <<>>
  /\ warmup = <<>>
  /\ api = <<>>

NextFlow ==
  \/ \E s \in ShotPool : PushHome(s)
  \/ \E s \in ShotPool : PushAway(s)
  \/ ClearShots
  \/ CallGenerateCorsiFlow

SpecFlow == InitFlow /\ [][NextFlow]_vars

(***************************************************************************)
(* Calls of the pure functions: call holds the function and its arguments, *)
(* ret the value returned.                                                 *)
(***************************************************************************)
EventKinds == {"shot-on-goal", "missed-shot", "blocked-shot", "goal", "hit"}

RECURSIVE SeqsUpTo(_, _)
SeqsUpTo(S, n) ==
  IF n = 0 THEN {<<>>}
  ELSE LET shorter == SeqsUpTo(S, n - 1)
       IN shorter \cup {Append(q, e) : q \in shorter, e \in S}

EventLists == SeqsUpTo([type : EventKinds], MaxEvents)

Counts == -MaxCount..MaxCount

PercentFunctions == {"calculateCorsiPercent", "calculateFenwickPercent",
                     "calculateGoalsForPercent"}

CallCorsiAndFenwick(shots) ==
  /\ call.fn = "none"
  /\ call' = [fn |-> "calculateCorsiFor/calculateFenwickFor", shots |-> shots]
  /\ ret' = [corsi |-> calculateCorsiFor(shots), fenwick |-> calculateFenwickFor(shots)]
  /\ UNCHANGED <<flowVars, cacheVars, clientVars>>

CallPercent(fn, for, against) ==
  /\ call.fn = "none"
  /\ call' = [fn |-> fn, for |-> for, against |-> against]
  /\ ret' = CASE fn = "calculateCorsiPercent" ->
                   calculateCorsiPercent(Num(for), Num(against))
              [] fn = "calculateFenwickPercent" ->
                   calculateFenwickPercent(Num(for), Num(against))
              [] fn = "calculateGoalsForPercent" ->
                   calculateGoalsForPercent(Num(for), Num(against))
  /\ UNCHANGED <<flowVars, cacheVars, clientVars>>

CallPDO(goalsFor, shotsFor, goalsAgainst, shotsAgainst) ==
  /\ call.fn = "none"
  /\ call' = [fn |-> "calculatePDO", goalsFor |-> goalsFor, shotsFor |-> shotsFor,
              goalsAgainst |-> goalsAgainst, shotsAgainst |-> shotsAgainst]
  /\ ret' = calculatePDO(Num(goalsFor), Num(shotsFor), Num(goalsAgainst), Num(shotsAgainst))
  /\ UNCHANGED <<flowVars, cacheVars, clientVars>>

XCoords == {-100, -89, -60, 0, 30, 60, 80, 85, 89, 95, 100}

YCoords == {-42, -20, -3, 0, 3, 10, 42}

ShotTypes ==
  {Undefined, S_empty, S_slap, S_snap, S_wrist, S_backhand, S_tip_in, S_deflected,
   S_wrap_around, S_TIP_IN, S_Wrist, S_poke, S_constructor, S_proto, S_toString,
   S_valueOf}

CallEstimateXG(x, y, shotType) ==
  /\ call.fn = "none"
  /\ call' = [fn |-> "estimateXG", x |-> x, y |-> y, shotType |-> shotType]
  /\ ret' = estimateXG(x, y, shotType)
  /\ UNCHANGED <<flowVars, cacheVars, clientVars>>

CallNormalizeToAttackingZone(x, y) ==
  /\ call.fn = "none"
  /\ call' = [fn |-> "normalizeToAttackingZone", x |-> x, y |-> y]
  /\ ret' = normalizeToAttackingZone(x, y)
  /\ UNCHANGED <<flowVars, cacheVars, clientVars>>

\* x in feet, y in half feet, in and out of the rink
SvgXs == {-101, -100, -50, 0, 37, 100, 150}

SvgHalfYs == {-90, -85, -40, 0, 1, 85, 100}

CallNhlToSvg(x, halfY) ==
  /\ call.fn = "none"
  /\ call' = [fn |-> "nhlToSvg", x |-> x, halfY |-> halfY]
  /\ ret' = nhlToSvg(Num(x), Frac(halfY, 2))
  /\ UNCHANGED <<flowVars, cacheVars, clientVars>>

T0000 == <<"0", "0", ":", "0", "0">>
T1959 == <<"1", "9", ":", "5", "9">>
T2000 == <<"2", "0", ":", "0", "0">>
\* clock strings with a component that is no number
Tab00 == <<"a", "b", ":", "0", "0">>
T05cd == <<"0", "5", ":", "c", "d">>
T1a00 == <<"1", "a", ":", "0", "0">>

ClockStrings == {T0000, T0010, T0500, T1000, T1959, T2000, T930, Tab00, T05cd, T1a00}

TimePeriods == 1..MaxPeriod

CallTimeToSeconds(time, period) ==
  /\ call.fn = "none"
  /\ call' = [fn |-> "timeToSeconds", time |-> time, period |-> period,
              threw |-> timeToSecondsThrows(time, period)]
  /\ ret' = timeToSeconds(time, period)
  /\ UNCHANGED <<flowVars, cacheVars, clientVars>>

\* secondsToTime applied to the result of timeToSeconds
CallSecondsToTime(time, period) ==
  /\ call.fn = "none"
  /\ call' = [fn |-> "secondsToTime", time |-> time, period |-> period,
              totalSeconds |-> timeToSeconds(time, period)]
  /\ ret' = secondsToTime(timeToSeconds(time, period))
  /\ UNCHANGED <<flowVars, cacheVars, clientVars>>

\* the caller drops the returned value
Return ==
  /\ call.fn # "none"
  /\ call' = [fn |-> "none"]
  /\ ret' = 0
  /\ UNCHANGED <<flowVars, cacheVars, clientVars>>

InitPure ==
  /\ homeShots = <<>>
  /\ awayShots = <<>>
  /\ flow = <<>>
  /\ returned = FALSE
  /\ call = [fn |-> "none"]
  /\ ret = 0
  /\ cache = <<>>
  /\ calls = <<>>
  /\ warmup = <<>>
  /\ api = <<>>

NextPure ==
  \/ \E shots \in EventLists : CallCorsiAndFenwick(shots)
  \/ \E fn \in PercentFunctions : \E for \in Counts : \E against \in Counts :
       CallPercent(fn, for, against)
  \/ \E gf \in Counts : \E sf \in Counts : \E ga \in Counts : \E sa \in Counts :
       CallPDO(gf, sf, ga, sa)
  \/ \E x \in XCoords : \E y \in YCoords : \E shotType \in ShotTypes :
       CallEstimateXG(x, y, shotType)
  \/ \E x \in XCoords : \E y \in YCoords : CallNormalizeToAttackingZone(x, y)
  \/ \E x \in SvgXs : \E halfY \in SvgHalfYs : CallNhlToSvg(x, halfY)
  \/ \E time \in ClockStrings : \E period \in TimePeriods : CallTimeToSeconds(time, period)
  \/ \E time \in ClockStrings : \E period \in TimePeriods : CallSecondsToTime(time, period)
  \/ Return

SpecPure == InitPure /\ [][NextPure]_vars

(***************************************************************************)
(* The routes of the server.  A request is one step: call holds the route  *)
(* and what the upstream (behind the cache) answered, ret the response.    *)
(***************************************************************************)

\* the awaited service call threw
Rejected == [ok |-> FALSE]

Resolved(data) == [ok |-> TRUE, data |-> data]

\* days from 1970-01-01 to the day d of month m of year y of the Gregorian
\* calendar
daysFromCivil(y, m, d) ==
  LET yy == IF m <= 2 THEN y - 1 ELSE y
      era == yy \div 400
      yoe == yy - era * 400
      mp == IF m > 2 THEN m - 3 ELSE m + 9
      doy == (153 * mp + 2) \div 5 + d - 1
      doe == yoe * 365 + yoe \div 4 - yoe \div 100 + doy
  IN era * 146097 + doe - 719468

\* new Date(gameDate).getTime() of a date "YYYY-MM-DD", which is midnight
\* UTC of that day.  Counted in days: the milliseconds are 86400000 times
\* this, beyond 32 bits, and the route uses only the sign of a difference
getTime(gameDate) ==
  LET parts == split(gameDate, "-")
  IN daysFromCivil(Number(parts[1]), Number(parts[2]), Number(parts[3]))

isCompleted(game) == game.gameState = "OFF" \/ game.gameState = "FINAL"

\* a comparator that puts the oldest game first
compareGamesOldestFirst(a, b) == getTime(a.gameDate) - getTime(b.gameDate)

compareGames(a, b) == getTime(b.gameDate) - getTime(a.gameDate)

\* Array.prototype.sort with compareGames: stable
RECURSIVE insertGame(_, _)
insertGame(x, sorted) ==
  IF sorted = <<>> THEN <<x>>
  ELSE IF compareGames(Head(sorted), x) <= 0
       THEN <<Head(sorted)>> \o insertGame(x, Tail(sorted))
       ELSE <<x>> \o sorted

RECURSIVE sortGames(_)
sortGames(games) ==
  IF games = <<>> THEN <<>>
  ELSE insertGame(games[Len(games)], sortGames(SubSeq(games, 1, Len(games) - 1)))

\* Array.prototype.slice(start, end) for 0 <= start <= end
slice(array, start, end) ==
  SubSeq(array, start + 1, IF end < Len(array) THEN end ELSE Len(array))

\* GET /api/games
getGames(upstream) ==
  IF ~upstream.ok
  THEN [status |-> 500, body |-> [error |-> "Failed to fetch games"]]
  ELSE [status |-> 200,
        body |-> slice(sortGames(SelectSeq(upstream.data, isCompleted)), 0, 20)]

\* the i-th game day of the season: six game days a month from October 2025
\* on, the fourth month being January 2026
seasonDate(i) ==
  LET monthIndex == (i - 1) \div 6
      month == ((9 + monthIndex) % 12) + 1
      year == IF month >= 10 THEN 2025 ELSE 2026
      day == 1 + 5 * ((i - 1) % 6)
  IN padStart(toString(year), 4, "0") \o <<"-">> \o padStart(toString(month), 2, "0")
       \o <<"-">> \o padStart(toString(day), 2, "0")

SchedulePatterns == {"all played", "mixed", "season in progress"}

\* gameState of the i-th game day of n
stateOfGame(i, n, pattern) ==
  IF pattern = "all played" THEN "OFF"
  ELSE IF pattern = "mixed" THEN <<"FUT", "OFF", "FINAL">>[(i % 3) + 1]
  ELSE IF i > n - 1 THEN "FUT"
  ELSE IF i = n - 1 THEN "LIVE"
  ELSE IF i % 2 = 0 THEN "OFF" ELSE "FINAL"

ScheduleOrders == {"oldest first", "newest first", "odd days first"}

\* the game day at place k of a schedule of n games
dayAtPlace(k, n, order) ==
  IF order = "oldest first" THEN k
  ELSE IF order = "newest first" THEN n + 1 - k
  ELSE IF k <= (n + 1) \div 2 THEN 2 * k - 1 ELSE 2 * (k - (n + 1) \div 2)

\* response.data.games of the club schedule
MakeSchedule(n, order, pattern) ==
  [k \in 1..n |->
     LET i == dayAtPlace(k, n, order)
     IN [id |-> 20000 + i, gameDate |-> seasonDate(i),
         gameState |-> stateOfGame(i, n, pattern)]]

CallGetGames(upstream) ==
  /\ call.fn = "none"
  /\ call' = [fn |-> "GET /api/games", upstream |-> upstream]
  /\ ret' = getGames(upstream)
  /\ UNCHANGED <<flowVars, cacheVars, clientVars>>

(***************************************************************************)
(* Play-by-play routes.  An optional field is <<>> when it is undefined    *)
(* and <<v>> when it holds v.                                              *)
(***************************************************************************)

shotTypes == {"shot-on-goal", "missed-shot", "blocked-shot", "goal"}

\* play.details?.field
detail(play, field) ==
  IF play.details = <<>> THEN <<>> ELSE play.details[1][field]

\* a || b on optional numbers: 0 is falsy
or(a, b) == IF a # <<>> /\ a[1] # 0 THEN a ELSE b

\* an extraction that tests the coordinates for truth
extractShotsTruthyCoords(pbp) ==
  LET isShot(play) == play.typeDescKey \in shotTypes
      hasCoords(play) ==
        /\ detail(play, "xCoord") # <<>> /\ detail(play, "xCoord")[1] # 0
        /\ detail(play, "yCoord") # <<>> /\ detail(play, "yCoord")[1] # 0
      located == SelectSeq(SelectSeq(pbp.plays, isShot), hasCoords)
  IN [k \in 1..Len(located) |->
       LET play == located[k]
       IN [eventId |-> play.eventId,
           period |-> play.periodDescriptor.number,
           time |-> play.timeInPeriod,
           type |-> play.typeDescKey,
           x |-> detail(play, "xCoord")[1],
           y |-> detail(play, "yCoord")[1],
           shooterId |-> or(detail(play, "shootingPlayerId"), detail(play, "scoringPlayerId")),
           shotType |-> detail(play, "shotType")]]

extractShots(pbp) ==
  LET isShot(play) == play.typeDescKey \in shotTypes
      hasCoords(play) ==
        detail(play, "xCoord") # <<>> /\ detail(play, "yCoord") # <<>>
      located == SelectSeq(SelectSeq(pbp.plays, isShot), hasCoords)
  IN [k \in 1..Len(located) |->
       LET play == located[k]
       IN [eventId |-> play.eventId,
           period |-> play.periodDescriptor.number,
           time |-> play.timeInPeriod,
           type |-> play.typeDescKey,
           x |-> detail(play, "xCoord")[1],
           y |-> detail(play, "yCoord")[1],
           shooterId |-> or(detail(play, "shootingPlayerId"), detail(play, "scoringPlayerId")),
           shotType |-> detail(play, "shotType")]]

\* `${player.firstName.default} ${player.lastName.default}`
fullName(player) == player.firstName \o <<" ">> \o player.lastName

Unknown == <<"U", "n", "k", "n", "o", "w", "n">>

\* rosterMap.get(playerId): the Map keeps the last spot of a playerId; <<>>
\* is undefined
RECURSIVE rosterMapGet(_, _)
rosterMapGet(rosterSpots, playerId) ==
  IF rosterSpots = <<>> THEN <<>>
  ELSE IF rosterSpots[Len(rosterSpots)].playerId = playerId
       THEN <<rosterSpots[Len(rosterSpots)]>>
       ELSE rosterMapGet(SubSeq(rosterSpots, 1, Len(rosterSpots) - 1), playerId)

\* GET /api/games/:id/shots
getShots(upstream) ==
  IF ~upstream.ok
  THEN [status |-> 500, body |-> [error |-> "Failed to fetch shots"]]
  ELSE LET pbp == upstream.data
           shots == extractShots(pbp)
       IN [status |-> 200,
           body |-> [k \in 1..Len(shots) |->
             LET spot == rosterMapGet(pbp.rosterSpots, or(shots[k].shooterId, <<0>>)[1])
             IN [eventId |-> shots[k].eventId, period |-> shots[k].period,
                 time |-> shots[k].time, type |-> shots[k].type,
                 x |-> shots[k].x, y |-> shots[k].y,
                 shooterId |-> shots[k].shooterId, shotType |-> shots[k].shotType,
                 shooterName |-> IF spot = <<>> THEN Unknown ELSE fullName(spot[1])]]]

OILERS_TEAM_ID == 22

\* acc[key].goals++ on the entry of the name, made first when it is missing;
\* the entries stand in the order the names came in
RECURSIVE countGoal(_, _)
countGoal(acc, goal) ==
  IF acc = <<>> THEN <<[name |-> goal.name, goals |-> 1, teamId |-> goal.teamId]>>
  ELSE IF Head(acc).name = goal.name
       THEN <<[Head(acc) EXCEPT !.goals = @ + 1]>> \o Tail(acc)
       ELSE <<Head(acc)>> \o countGoal(Tail(acc), goal)

RECURSIVE reduceGoals(_)
reduceGoals(goals) ==
  IF goals = <<>> THEN <<>>
  ELSE countGoal(reduceGoals(SubSeq(goals, 1, Len(goals) - 1)), goals[Len(goals)])

\* sort((a, b) => b.goals - a.goals): stable
RECURSIVE insertScorer(_, _)
insertScorer(x, sorted) ==
  IF sorted = <<>> THEN <<x>>
  ELSE IF x.goals - Head(sorted).goals <= 0
       THEN <<Head(sorted)>> \o insertScorer(x, Tail(sorted))
       ELSE <<x>> \o sorted

RECURSIVE sortScorers(_)
sortScorers(scorers) ==
  IF scorers = <<>> THEN <<>>
  ELSE insertScorer(scorers[Len(scorers)], sortScorers(SubSeq(scorers, 1, Len(scorers) - 1)))

\* GET /api/games/:id/scorers
getScorers(upstream) ==
  IF ~upstream.ok
  THEN [status |-> 500, body |-> [error |-> "Failed to fetch scorers"]]
  ELSE LET pbp == upstream.data
           isGoal(play) == play.typeDescKey = "goal"
           goalPlays == SelectSeq(pbp.plays, isGoal)
           goals == [k \in 1..Len(goalPlays) |->
             LET scorerId == detail(goalPlays[k], "scoringPlayerId")
                 playerInfo == rosterMapGet(pbp.rosterSpots, or(scorerId, <<0>>)[1])
             IN [scorerId |-> scorerId,
                 name |-> IF playerInfo = <<>> THEN Unknown ELSE fullName(playerInfo[1]),
                 teamId |-> IF playerInfo = <<>> THEN <<>> ELSE <<playerInfo[1].teamId>>,
                 period |-> goalPlays[k].periodDescriptor.number,
                 time |-> goalPlays[k].timeInPeriod]]
           isOilers(goal) == goal.teamId = <<OILERS_TEAM_ID>>
           oilersGoals == SelectSeq(goals, isOilers)
       IN [status |-> 200, body |-> sortScorers(reduceGoals(oilersGoals))]

Spot(playerId, firstName, lastName, teamId) ==
  [playerId |-> playerId, firstName |-> firstName, lastName |-> lastName, teamId |-> teamId]

Connor == <<"C", "o", "n", "n", "o", "r">>
McDavid == <<"M", "c", "D", "a", "v", "i", "d">>
Leon == <<"L", "e", "o", "n">>
Draisaitl == <<"D", "r", "a", "i", "s", "a", "i", "t", "l">>
Ryan == <<"R", "y", "a", "n">>
Smith == <<"S", "m", "i", "t", "h">>
Evan == <<"E", "v", "a", "n">>
Auston == <<"A", "u", "s", "t", "o", "n">>
Matthews == <<"M", "a", "t", "t", "h", "e", "w", "s">>

TORONTO_TEAM_ID == 10

\* rosterSpots of the two teams of a game: in the first every player has a
\* name of their own, in the second two Oilers have the same name
RosterOfOwnNames ==
  <<Spot(97, Connor, McDavid, OILERS_TEAM_ID), Spot(29, Leon, Draisaitl, OILERS_TEAM_ID),
    Spot(10, Ryan, Smith, OILERS_TEAM_ID), Spot(20, Evan, Smith, OILERS_TEAM_ID),
    Spot(34, Auston, Matthews, TORONTO_TEAM_ID)>>

RosterWithNamesakes ==
  <<Spot(97, Connor, McDavid, OILERS_TEAM_ID), Spot(29, Leon, Draisaitl, OILERS_TEAM_ID),
    Spot(10, Ryan, Smith, OILERS_TEAM_ID), Spot(20, Ryan, Smith, OILERS_TEAM_ID),
    Spot(34, Auston, Matthews, TORONTO_TEAM_ID)>>

Rosters == {RosterOfOwnNames, RosterWithNamesakes}

Details(xCoord, yCoord, shootingPlayerId, scoringPlayerId, shotType) ==
  <<[xCoord |-> xCoord, yCoord |-> yCoord, shootingPlayerId |-> shootingPlayerId,
     scoringPlayerId |-> scoringPlayerId, shotType |-> shotType]>>

\* the clock counted down from 20:00
timeRemainingAt(timeInPeriod) == secondsToTime(20 * 60 - timeToSeconds(timeInPeriod, 1))

PlayOf(period, timeInPeriod, typeDescKey, details) ==
  [eventId |-> 0, periodDescriptor |-> [number |-> period], timeInPeriod |-> timeInPeriod,
   timeRemaining |-> timeRemainingAt(timeInPeriod), situationCode |-> "1551",
   typeDescKey |-> typeDescKey, details |-> details]

\* goals of Oilers, of namesakes, of the other team, of a player the roster
\* does not have and without details; attempts on the centre lines (a
\* coordinate 0), with a coordinate or the shooter missing; a faceoff
PlayPool ==
  {PlayOf(1, T0500, "goal", Details(<<80>>, <<0>>, <<>>, <<97>>, <<"wrist">>)),
   PlayOf(1, T1000, "goal", Details(<<75>>, <<-5>>, <<>>, <<10>>, <<"snap">>)),
   PlayOf(2, T0010, "goal", Details(<<0>>, <<12>>, <<>>, <<20>>, <<"tip-in">>)),
   PlayOf(2, T0500, "goal", Details(<<-80>>, <<3>>, <<>>, <<34>>, <<"wrist">>)),
   PlayOf(2, T1959, "goal", Details(<<70>>, <<8>>, <<>>, <<99>>, <<>>)),
   PlayOf(3, T0010, "goal", <<>>),
   PlayOf(3, T0500, "shot-on-goal", Details(<<60>>, <<20>>, <<29>>, <<>>, <<"snap">>)),
   PlayOf(3, T1000, "missed-shot", Details(<<55>>, <<>>, <<97>>, <<>>, <<"slap">>)),
   PlayOf(3, T1959, "blocked-shot", Details(<<50>>, <<-10>>, <<>>, <<>>, <<>>)),
   PlayOf(1, T0000, "faceoff", Details(<<0>>, <<0>>, <<>>, <<>>, <<>>))}

\* the plays in the order of the game, with their event numbers
PlayLists ==
  {[k \in 1..Len(q) |-> [q[k] EXCEPT !.eventId = 100 + k]] : q \in SeqsUpTo(PlayPool, MaxPlays)}

CallGetShots(upstream) ==
  /\ call.fn = "none"
  /\ call' = [fn |-> "GET /api/games/:id/shots", upstream |-> upstream]
  /\ ret' = getShots(upstream)
  /\ UNCHANGED <<flowVars, cacheVars, clientVars>>

CallGetScorers(upstream) ==
  /\ call.fn = "none"
  /\ call' = [fn |-> "GET /api/games/:id/scorers", upstream |-> upstream]
  /\ ret' = getScorers(upstream)
  /\ UNCHANGED <<flowVars, cacheVars, clientVars>>

corsiEvents == {"shot-on-goal", "missed-shot", "blocked-shot", "goal"}

\* a flow that gives the first attempt to the away team
RECURSIVE corsiFlowAwayFirst(_, _, _, _)
corsiFlowAwayFirst(events, index, homeCorsi, awayCorsi) ==
  IF events = <<>> THEN <<>>
  ELSE LET home == IF index % 2 = 1 THEN homeCorsi + 1 ELSE homeCorsi
           away == IF index % 2 = 1 THEN awayCorsi ELSE awayCorsi + 1
           event == Head(events)
       IN <<[period |-> event.period, time |-> event.time,
             timeRemaining |-> event.timeRemaining, type |-> event.type,
             situationCode |-> event.situationCode,
             homeCorsi |-> home, awayCorsi |-> away, differential |-> home - away]>>
            \o corsiFlowAwayFirst(Tail(events), index + 1, home, away)

\* events.map((event, index) => ...) from the element at index on, with the
\* counters as the elements before it left them
RECURSIVE corsiFlow(_, _, _, _)
corsiFlow(events, index, homeCorsi, awayCorsi) ==
  IF events = <<>> THEN <<>>
  ELSE LET home == IF index % 2 = 0 THEN homeCorsi + 1 ELSE homeCorsi
           away == IF index % 2 = 0 THEN awayCorsi ELSE awayCorsi + 1
           event == Head(events)
       IN <<[period |-> event.period, time |-> event.time,
             timeRemaining |-> event.timeRemaining, type |-> event.type,
             situationCode |-> event.situationCode,
             homeCorsi |-> home, awayCorsi |-> away, differential |-> home - away]>>
            \o corsiFlow(Tail(events), index + 1, home, away)

\* a number in a JSON body: NaN and the infinities are written as null,
\* which is <<>>
jsonNumber(x) == IF IsFinite(x) THEN <<x>> ELSE <<>>

\* GET /api/stats/corsi/:gameId
getCorsi(upstream) ==
  IF ~upstream.ok
  THEN [status |-> 500, body |-> [error |-> "Failed to calculate Corsi"]]
  ELSE LET pbp == upstream.data
           isCorsi(play) == play.typeDescKey \in corsiEvents
           attempts == SelectSeq(pbp.plays, isCorsi)
           events == [k \in 1..Len(attempts) |->
             [period |-> attempts[k].periodDescriptor.number,
              time |-> attempts[k].timeInPeriod,
              timeRemaining |-> attempts[k].timeRemaining,
              type |-> attempts[k].typeDescKey,
              situationCode |-> attempts[k].situationCode]]
           flowOfGame == corsiFlow(events, 0, 0, 0)
           homeCorsi == IF flowOfGame = <<>> THEN 0 ELSE flowOfGame[Len(flowOfGame)].homeCorsi
           awayCorsi == IF flowOfGame = <<>> THEN 0 ELSE flowOfGame[Len(flowOfGame)].awayCorsi
       IN [status |-> 200,
           body |-> [homeCorsi |-> homeCorsi,
                     awayCorsi |-> awayCorsi,
                     corsiFor |-> homeCorsi,
                     corsiAgainst |-> awayCorsi,
                     corsiPercent |->
                       jsonNumber(FracMul(FracDiv(Num(homeCorsi), Num(homeCorsi + awayCorsi)),
                                          Num(100))),
                     flow |-> flowOfGame]]

CallGetCorsi(upstream) ==
  /\ call.fn = "none"
  /\ call' = [fn |-> "GET /api/stats/corsi/:gameId", upstream |-> upstream]
  /\ ret' = getCorsi(upstream)
  /\ UNCHANGED <<flowVars, cacheVars, clientVars>>

\* Array.prototype.slice(start) for start <= 0: the last -start elements
sliceLast(array, start) ==
  SubSeq(array, IF Len(array) + start < 0 THEN 1 ELSE Len(array) + start + 1, Len(array))

\* Array.prototype.reverse
reverse(array) == [k \in 1..Len(array) |-> array[Len(array) + 1 - k]]

\* GET /api/initial: Promise.all rejects as soon as one of the five service
\* calls rejects
getInitial(upstream) ==
  IF ~upstream.ok
  THEN [status |-> 500, body |-> [error |-> "Failed to fetch initial data"]]
  ELSE [status |-> 200,
        body |-> [roster |-> upstream.data.roster,
                  teamStats |-> upstream.data.teamStats,
                  games |-> reverse(sliceLast(SelectSeq(upstream.data.scheduleData, isCompleted), -20)),
                  player1Stats |-> upstream.data.player1Stats,
                  player2Stats |-> upstream.data.player2Stats]]

\* what the five service calls of GET /api/initial resolve with
InitialData(scheduleData) ==
  [roster |-> "roster", teamStats |-> "teamStats", scheduleData |-> scheduleData,
   player1Stats |-> "player1Stats", player2Stats |-> "player2Stats"]

CallGetInitial(upstream) ==
  /\ call.fn = "none"
  /\ call' = [fn |-> "GET /api/initial", upstream |-> upstream]
  /\ ret' = getInitial(upstream)
  /\ UNCHANGED <<flowVars, cacheVars, clientVars>>

InitRoutes ==
  /\ call = [fn |-> "none"]
  /\ ret = 0
  /\ homeShots = <<>>
  /\ awayShots = <<>>
  /\ flow = <<>>
  /\ returned = FALSE
  /\ cache = <<>>
  /\ calls = <<>>
  /\ warmup = <<>>
  /\ api = <<>>

NextRoutes ==
  \/ \E n \in 0..MaxGames : \E order \in ScheduleOrders : \E pattern \in SchedulePatterns :
       CallGetGames(Resolved(MakeSchedule(n, order, pattern)))
  \/ CallGetGames(Rejected)
  \/ \E rosterSpots \in Rosters : \E plays \in PlayLists :
       CallGetShots(Resolved([plays |-> plays, rosterSpots |-> rosterSpots]))
  \/ CallGetShots(Rejected)
  \/ \E rosterSpots \in Rosters : \E plays \in PlayLists :
       CallGetScorers(Resolved([plays |-> plays, rosterSpots |-> rosterSpots]))
  \/ CallGetScorers(Rejected)
  \/ \E plays \in PlayLists :
       CallGetCorsi(Resolved([plays |-> plays, rosterSpots |-> RosterOfOwnNames]))
  \/ CallGetCorsi(Rejected)
  \/ \E n \in 0..MaxGames : \E order \in ScheduleOrders : \E pattern \in SchedulePatterns :
       CallGetInitial(Resolved(InitialData(MakeSchedule(n, order, pattern))))
  \/ CallGetInitial(Rejected)
  \/ Return

SpecRoutes == InitRoutes /\ [][NextRoutes]_vars

(***************************************************************************)
(* The server's cache in front of the NHL API.  cache maps a key to <<>>   *)
(* (no entry) or to <<[v, left]>>: the stored value and the seconds left   *)
(* until its expiry time t (left = t - Date.now()).  calls holds, for each *)
(* request in flight, where its getCachedOrFetch stands.  ret is the       *)
(* response sent in the step, NoResponse when the step sent none.          *)
(***************************************************************************)

\* no response is sent in the step
NoResponse == [status |-> 0]

\* new NodeCache({ stdTTL: 300 })
stdTTL == 300

CACHE_TTL ==
  [roster |-> 3600, teamStats |-> 900, schedule |-> 600, player |-> 600, game |-> 300]

ROSTER_KEY == "oilers-roster"
SCHEDULE_KEY == "oilers-schedule-20252026"

CacheKeys == {ROSTER_KEY, SCHEDULE_KEY}

\* the ttl argument of the wrapper that owns the key: <<>> is an omitted
\* argument (undefined)
ttlArgument(key) ==
  IF key = ROSTER_KEY THEN <<CACHE_TTL.roster>> ELSE <<>>

\* every entry has run out of time as soon as its expiry time lies in the past
Expired == -1

\* a cache whose get never looks at the expiry time
cacheGetIgnoringExpiry(c, key) ==
  IF c[key] # <<>> THEN <<c[key][1].v>> ELSE <<>>

\* cache.get(key): <<>> is undefined.  An entry is stale when
\* t < Date.now(), and the get that finds it stale deletes it
cacheGet(c, key) ==
  IF c[key] # <<>> /\ c[key][1].left >= 0 THEN <<c[key][1].v>> ELSE <<>>

cacheAfterGet(c, key) ==
  IF c[key] # <<>> /\ c[key][1].left < 0 THEN [c EXCEPT ![key] = <<>>] ELSE c

\* cache.set(key, data, ttl) and cache.set(key, data)
cacheSet(c, key, data, ttl) ==
  [c EXCEPT ![key] = <<[v |-> data, left |-> IF ttl # <<>> THEN ttl[1] ELSE stdTTL]>>]

\* what the upstream answers: response bodies are JSON objects
UpstreamData == {"data1", "data2"}

Calls == 1..MaxCalls

Idle == [state |-> "idle"]

\* getCachedOrFetch up to its await: a hit returns the cached value, a miss
\* invokes fetchFn
GetCachedOrFetch(c, key) ==
  /\ calls[c] = Idle
  /\ LET cached == cacheGet(cache, key)
     IN /\ cache' = cacheAfterGet(cache, key)
        /\ calls' = [calls EXCEPT ![c] =
              IF cached # <<>>
              THEN [state |-> "returned", key |-> key, data |-> cached[1], fetched |-> FALSE]
              ELSE [state |-> "awaiting", key |-> key]]
  /\ ret' = NoResponse
  /\ UNCHANGED <<flowVars, call, clientVars>>

\* fetchFn resolves: the data is stored with the wrapper's ttl, or with the
\* cache's default when the wrapper gives none, and returned
FetchResolves(c, data) ==
  /\ calls[c].state = "awaiting"
  /\ LET key == calls[c].key
         ttl == ttlArgument(key)
     IN /\ cache' = IF ttl # <<>> /\ ttl[1] # 0
                    THEN cacheSet(cache, key, data, ttl)
                    ELSE cacheSet(cache, key, data, <<>>)
        /\ calls' = [calls EXCEPT ![c] =
              [state |-> "returned", key |-> key, data |-> data, fetched |-> TRUE]]
  /\ ret' = NoResponse
  /\ UNCHANGED <<flowVars, call, clientVars>>

\* fetchFn rejects: the await throws and nothing is stored
FetchRejects(c) ==
  /\ calls[c].state = "awaiting"
  /\ calls' = [calls EXCEPT ![c] = [state |-> "rejected", key |-> calls[c].key]]
  /\ ret' = NoResponse
  /\ UNCHANGED <<cache, flowVars, call, clientVars>>

\* GET /api/players
getPlayers(upstream) ==
  IF ~upstream.ok
  THEN [status |-> 500, body |-> [error |-> "Failed to fetch roster"]]
  ELSE [status |-> 200, body |-> upstream.data]

\* the games array a schedule body holds
gamesOf(data) ==
  IF data = "data1" THEN MakeSchedule(1, "oldest first", "all played")
  ELSE MakeSchedule(2, "newest first", "all played")

\* what the awaited service call gave the route of the key
awaited(callOf) ==
  IF callOf.state = "rejected" THEN Rejected
  ELSE IF callOf.key = SCHEDULE_KEY THEN Resolved(gamesOf(callOf.data))
  ELSE Resolved(callOf.data)

\* the route that awaited the call answers: GET /api/players for the roster,
\* GET /api/games for the schedule
Settle(c) ==
  /\ calls[c].state \in {"returned", "rejected"}
  /\ calls' = [calls EXCEPT ![c] = Idle]
  /\ ret' = IF calls[c].key = ROSTER_KEY THEN getPlayers(awaited(calls[c]))
            ELSE getGames(awaited(calls[c]))
  /\ UNCHANGED <<cache, flowVars, call, clientVars>>

TickSeconds == {300, 3600}

\* Date.now() advances by d seconds
Tick(d) ==
  /\ cache' = [k \in CacheKeys |->
       IF cache[k] = <<>> THEN <<>>
       ELSE <<[cache[k][1] EXCEPT !.left =
                 IF cache[k][1].left - d < 0 THEN Expired ELSE cache[k][1].left - d]>>]
  /\ cache' # cache
  /\ ret' = NoResponse
  /\ UNCHANGED <<calls, flowVars, call, clientVars>>

InitCache ==
  /\ cache = [k \in CacheKeys |-> <<>>]
  /\ calls = [c \in Calls |-> Idle]
  /\ homeShots = <<>>
  /\ awayShots = <<>>
  /\ flow = <<>>
  /\ returned = FALSE
  /\ call = [fn |-> "none"]
  /\ ret = NoResponse
  /\ warmup = <<>>
  /\ api = <<>>

NextCache ==
  \/ \E c \in Calls : \E key \in CacheKeys : GetCachedOrFetch(c, key)
  \/ \E c \in Calls : \E data \in UpstreamData : FetchResolves(c, data)
  \/ \E c \in Calls : FetchRejects(c)
  \/ \E c \in Calls : Settle(c)
  \/ \E d \in TickSeconds : Tick(d)

SpecCache == InitCache /\ [][NextCache]_vars

(***************************************************************************)
(* The client's useServerWarmup hook.  warmup holds the two state values   *)
(* of the component, the effect that ran last (named by the retryCount it  *)
(* closed over), the effects whose cleanup has set cancelled, the health   *)
(* requests in flight and the timers pending, each named by the effect     *)
(* whose pingServer it belongs to, the number of health requests sent and  *)
(* the requests that have settled.                                         *)
(***************************************************************************)

maxRetries == 3

\* no effect has run yet
NoEffect == -1

\* pingServer of the effect is called: axios.get is sent, whether or not the
\* effect is cancelled
pingServer(w, e, byTimer) ==
  [w EXCEPT !.requests = @ + 1, !.pings = @ \cup {[effect |-> e, timer |-> byTimer]}]

\* the component has rendered with a retryCount the last effect did not
\* see: the cleanup of that effect runs, then the new effect, which pings
RunEffect ==
  /\ warmup.effect # warmup.retryCount
  /\ warmup' = pingServer(
       [warmup EXCEPT !.cancelled = IF warmup.effect = NoEffect THEN @
                                    ELSE @ \cup {warmup.effect},
                      !.effect = warmup.retryCount],
       warmup.retryCount, FALSE)
  /\ UNCHANGED <<flowVars, pureVars, cacheVars, api>>

\* the request in flight, taken out and written down as settled
settle(w, p, ok) ==
  [w EXCEPT !.pings = @ \ {p},
            !.settled = @ \cup {[effect |-> p.effect, timer |-> p.timer, ok |-> ok,
                                 cancelled |-> p.effect \in w.cancelled]}]

\* a handler that does not look at cancelled
PingSucceedsWhenCancelled(p) ==
  /\ p \in warmup.pings
  /\ warmup' = [settle(warmup, p, TRUE) EXCEPT !.status = "connected"]
  /\ UNCHANGED <<flowVars, pureVars, cacheVars, api>>

\* the health request resolves
PingSucceeds(p) ==
  /\ p \in warmup.pings
  /\ warmup' = IF p.effect \notin warmup.cancelled
               THEN [settle(warmup, p, TRUE) EXCEPT !.status = "connected"]
               ELSE settle(warmup, p, TRUE)
  /\ UNCHANGED <<flowVars, pureVars, cacheVars, api>>

\* the health request rejects or times out: retryCount in the handler is the
\* value the effect closed over
PingFails(p) ==
  /\ p \in warmup.pings
  /\ warmup' = IF p.effect \in warmup.cancelled THEN settle(warmup, p, FALSE)
               ELSE IF p.effect < maxRetries
               THEN [settle(warmup, p, FALSE) EXCEPT !.retryCount = @ + 1,
                                                     !.timers = @ \cup {p.effect}]
               ELSE [settle(warmup, p, FALSE) EXCEPT !.status = "error"]
  /\ UNCHANGED <<flowVars, pureVars, cacheVars, api>>

\* the 2000 ms of a timer are over: pingServer of its effect runs again.
\* A render and its effects are through long before a timer is due
TimerFires(e) ==
  /\ e \in warmup.timers
  /\ warmup.effect = warmup.retryCount
  /\ warmup' = pingServer([warmup EXCEPT !.timers = @ \ {e}], e, TRUE)
  /\ UNCHANGED <<flowVars, pureVars, cacheVars, api>>

Effects == 0..maxRetries

Pings == [effect : Effects, timer : BOOLEAN]

InitWarmup ==
  /\ warmup = [status |-> "connecting", retryCount |-> 0, effect |-> NoEffect,
               cancelled |-> {}, pings |-> {}, timers |-> {}, requests |-> 0,
               settled |-> {}]
  /\ api = <<>>
  /\ homeShots = <<>>
  /\ awayShots = <<>>
  /\ flow = <<>>
  /\ returned = FALSE
  /\ call = [fn |-> "none"]
  /\ ret = 0
  /\ cache = <<>>
  /\ calls = <<>>

NextWarmup ==
  \/ RunEffect
  \/ \E p \in Pings : PingSucceeds(p)
  \/ \E p \in Pings : PingFails(p)
  \/ \E e \in Effects : TimerFires(e)

SpecWarmup == InitWarmup /\ [][NextWarmup]_vars

\* every render runs its effects, and every health request settles
SpecWarmupFair ==
  InitWarmup /\ [][NextWarmup]_vars
    /\ WF_vars(RunEffect)
    /\ \A p \in Pings : WF_vars(PingSucceeds(p) \/ PingFails(p))

(***************************************************************************)
(* Properties of the possession metrics                                    *)
(***************************************************************************)
NumberOf(shots, kind) == Cardinality({i \in 1..Len(shots) : shots[i].type = kind})

\* C6: fenwickFor(events) <= corsiFor(events), their difference is the number
\* of blocked-shot events of the list, and both are 0 for the empty list.
C6_FenwickWithinCorsi ==
  call.fn = "calculateCorsiFor/calculateFenwickFor" =>
    /\ ret.fenwick <= ret.corsi
    /\ ret.corsi - ret.fenwick = NumberOf(call.shots, "blocked-shot")
    /\ call.shots = <<>> => ret.corsi = 0 /\ ret.fenwick = 0

\* a list with a blocked shot, an unblocked attempt and a play that is no
\* attempt: Corsi 2, Fenwick 1
C6_Witness ==
  /\ call.fn = "calculateCorsiFor/calculateFenwickFor"
  /\ Len(call.shots) = 3
  /\ NumberOf(call.shots, "blocked-shot") = 1
  /\ NumberOf(call.shots, "hit") = 1
  /\ ret.corsi = 2
  /\ ret.fenwick = 1

\* C7: the percentage functions return exactly 50 when for + against = 0 and
\* 100 * for / (for + against) otherwise; the result is always a finite
\* number (no division by zero), and within [0, 100] for counts >= 0.
C7_PercentFor ==
  call.fn \in PercentFunctions =>
    LET total == call.for + call.against
    IN /\ IsFinite(ret)
       /\ total = 0 => ret = Num(50)
       /\ total # 0 => ret.num * total = 100 * call.for * ret.den
       /\ (call.for >= 0 /\ call.against >= 0) =>
            /\ 0 <= ret.num
            /\ ret.num <= 100 * ret.den

\* a zero total reached with non-zero counts, answered 50
C7_Witness ==
  /\ call.fn = "calculateGoalsForPercent"
  /\ call.for = 2
  /\ call.against = -2
  /\ ret = Num(50)

\* the sum shooting% + save% as a fraction, each part given with its guard
PDOValue(shootingIsZero, saveIsHundred) ==
  LET gf == call.goalsFor
      sf == call.shotsFor
      ga == call.goalsAgainst
      sa == call.shotsAgainst
      shooting == IF shootingIsZero THEN Num(0) ELSE Frac(100 * gf, sf)
      save == IF saveIsHundred THEN Num(100) ELSE Frac(100 * (sa - ga), sa)
  IN FracAdd(shooting, save)

\* C8 as stated: for any finite input, shooting% is 0 if shotsFor == 0 and
\* goalsFor/shotsFor*100 otherwise, save% is 100 if shotsAgainst == 0 and
\* (shotsAgainst - goalsAgainst)/shotsAgainst*100 otherwise.
C8_PDOZeroGuards ==
  call.fn = "calculatePDO" =>
    ret = PDOValue(call.shotsFor = 0, call.shotsAgainst = 0)

\* C8 as amended: shooting% is 0 if shotsFor <= 0 and save% is 100 if
\* shotsAgainst <= 0, each is the quotient otherwise; pdo(0,0,0,0) = 100.
C8_PDO ==
  call.fn = "calculatePDO" =>
    /\ ret = PDOValue(call.shotsFor <= 0, call.shotsAgainst <= 0)
    /\ IsFinite(ret)
    /\ (call.goalsFor = 0 /\ call.shotsFor = 0
          /\ call.goalsAgainst = 0 /\ call.shotsAgainst = 0) => ret = Num(100)

\* one goal on three shots for, one goal on two shots against:
\* 100/3 + 50 = 250/3
C8_Witness ==
  /\ call.fn = "calculatePDO"
  /\ call.goalsFor = 1
  /\ call.shotsFor = 3
  /\ call.goalsAgainst = 1
  /\ call.shotsAgainst = 2
  /\ ret = [num |-> 250, den |-> 3]

(***************************************************************************)
(* Properties of the xG estimator                                          *)
(***************************************************************************)
\* C9: for all x and y and every optional shotType string, estimateXG
\* returns a value v with 0.01 <= v <= 0.95.
C9_XGBounds ==
  call.fn = "estimateXG" =>
    /\ ~IsNaN(ret)
    /\ 100 <= ret
    /\ ret <= 9500

\* the multiplier table of the claim, in tenths
C10_Table ==
  (S_slap :> 9) @@ (S_snap :> 11) @@ (S_wrist :> 10) @@ (S_backhand :> 8)
    @@ (S_tip_in :> 13) @@ (S_deflected :> 12) @@ (S_wrap_around :> 6)

\* C10: the multiplier is the table value when the lower-cased shotType is
\* in the table ('TIP-IN' and 'tip-in' both give 0.52 at (89, 0)), and 1.0
\* for an absent shotType and for every other string whatever its content:
\* estimateXG(x, y, s) = estimateXG(x, y).
C10_ShotTypeMultiplier ==
  call.fn = "estimateXG" =>
    LET inTable == /\ call.shotType # Undefined
                   /\ toLowerCase(call.shotType) \in DOMAIN C10_Table
    IN /\ inTable =>
            ret = clampXG((xGByLocation(call.x, call.y)
                             * C10_Table[toLowerCase(call.shotType)]) \div 10)
       /\ ~inTable => ret = estimateXG(call.x, call.y, Undefined)
       /\ (call.x = 89 /\ call.y = 0 /\ call.shotType \in {S_tip_in, S_TIP_IN}) =>
            ret = 5200

\* C11: estimateXG(x, y, t) = estimateXG(-x, y, t) = estimateXG(-x, -y, t),
\* so the value is the same for the shot reflected by
\* normalizeToAttackingZone.
C11_XGSymmetric ==
  call.fn = "estimateXG" =>
    LET n == normalizeToAttackingZone(call.x, call.y)
    IN /\ ret = estimateXG(-call.x, call.y, call.shotType)
       /\ ret = estimateXG(-call.x, -call.y, call.shotType)
       /\ ret = estimateXG(n.x, n.y, call.shotType)

\* a snap shot from the defending half, off the centre line, whose value is
\* above the lower clamp
C11_Witness ==
  /\ call.fn = "estimateXG"
  /\ call.x = -60
  /\ call.y = 10
  /\ call.shotType = S_snap
  /\ ret > 100

(***************************************************************************)
(* Properties of the coordinate mapper                                     *)
(***************************************************************************)
\* C12: normalizeToAttackingZone(x, y) is (-x, -y) when x < 0 and (x, y)
\* otherwise, x = 0 included; the result has x' >= 0 and normalising the
\* result again returns it unchanged.
C12_NormalizeIdempotent ==
  call.fn = "normalizeToAttackingZone" =>
    /\ call.x < 0 => ret = [x |-> -call.x, y |-> -call.y]
    /\ call.x >= 0 => ret = [x |-> call.x, y |-> call.y]
    /\ ret.x >= 0
    /\ normalizeToAttackingZone(ret.x, ret.y) = ret

\* a point of the defending half, off the centre line, reflected through
\* the centre of the rink
C12_Witness ==
  /\ call.fn = "normalizeToAttackingZone"
  /\ call.x = -60
  /\ call.y = 10
  /\ ret = [x |-> 60, y |-> -10]

FracLE(a, b) == a.num * b.den <= b.num * a.den

\* C13: nhlToSvg is dx = (x + 100) / 200 * 800, dy = (y + 42.5) / 85 * 340:
\* x = -100, 0, 100 go to 0, 400, 800 and y = -42.5, 0, 42.5 to 0, 170, 340;
\* it is strictly increasing in each coordinate, maps the rink into
\* [0, 800] x [0, 340] and returns a finite value outside the rink too.
C13_NhlToSvgAffine ==
  call.fn = "nhlToSvg" =>
    LET x == call.x
        h == call.halfY
    IN /\ ret.x = Frac((x + 100) * 800, 200)
       /\ ret.y = Frac((h + 85) * 340, 170)
       /\ x = -100 => ret.x = Num(0)
       /\ x = 0 => ret.x = Num(400)
       /\ x = 100 => ret.x = Num(800)
       /\ h = -85 => ret.y = Num(0)
       /\ h = 0 => ret.y = Num(170)
       /\ h = 85 => ret.y = Num(340)
       /\ FracGT(nhlToSvg(Num(x + 1), Frac(h, 2)).x, ret.x)
       /\ FracGT(nhlToSvg(Num(x), Frac(h + 1, 2)).y, ret.y)
       /\ (-100 <= x /\ x <= 100 /\ -85 <= h /\ h <= 85) =>
            /\ FracLE(Num(0), ret.x) /\ FracLE(ret.x, Num(800))
            /\ FracLE(Num(0), ret.y) /\ FracLE(ret.y, Num(340))
       /\ IsFinite(ret.x)
       /\ IsFinite(ret.y)

\* a point inside the rink with y = 0.5, and a point outside the rink that
\* lands outside the drawing
C13_Witness ==
  /\ call.fn = "nhlToSvg"
  /\ \/ call.x = 37 /\ call.halfY = 1 /\ ret = [x |-> Num(548), y |-> Num(172)]
     \/ call.x = 150 /\ call.halfY = -90 /\ ret = [x |-> Num(1000), y |-> Num(-10)]

\* the minutes and the seconds of a zero-padded "MM:SS", read by position
MinutesOf(time) == 10 * DigitVal(time[1]) + DigitVal(time[2])

SecondsOf(time) == 10 * DigitVal(time[4]) + DigitVal(time[5])

\* C14: for every period p >= 1 and every well-formed "MM:SS",
\* timeToSeconds(clockTime, p) = (p - 1) * 1200 + MM * 60 + SS.
C14_TimeToSeconds ==
  (call.fn = "timeToSeconds" /\ IsZeroPadded(call.time)) =>
    ret = (call.period - 1) * 1200 + MinutesOf(call.time) * 60 + SecondsOf(call.time)

\* 19:59 of the third period is second 3599 of the game
C14_Witness ==
  /\ call.fn = "timeToSeconds"
  /\ call.time = T1959
  /\ call.period = 3
  /\ ret = 3599

\* C15: for a zero-padded "MM:SS" with SS <= 59,
\* secondsToTime(timeToSeconds(t, 1)) = t, while for a period p >= 2 the
\* result is the clock string of MM + 20 * (p - 1) minutes and SS seconds,
\* which is not t.
C15_RoundTripFirstPeriodOnly ==
  (call.fn = "secondsToTime" /\ IsZeroPadded(call.time) /\ SecondsOf(call.time) <= 59) =>
    LET parts == split(ret, ":")
    IN /\ call.period = 1 => ret = call.time
       /\ call.period >= 2 =>
            /\ ret # call.time
            /\ Len(parts) = 2
            /\ Len(parts[1]) >= 2
            /\ Len(parts[2]) = 2
            /\ Number(parts[1]) = MinutesOf(call.time) + 20 * (call.period - 1)
            /\ Number(parts[2]) = SecondsOf(call.time)

\* 05:00 comes back from the first period, and 05:00 of the third period
\* comes back as 45:00
C15_Witness ==
  /\ call.fn = "secondsToTime"
  /\ call.time = T0500
  /\ \/ call.period = 1 /\ ret = T0500
     \/ call.period = 3 /\ ret = <<"4", "5", ":", "0", "0">>

\* a clock string "MM:SS" one of whose two components holds a letter
HasNonNumericComponent(time) ==
  LET parts == split(time, ":")
  IN /\ Len(parts) = 2
     /\ \E k \in 1..2 : \E i \in 1..Len(parts[k]) : ~IsDigit(parts[k][i])

\* C16 as stated: a call of timeToSeconds with a clockTime whose minute or
\* second component is not numeric fails with a parsing error instead of
\* returning a value.
C16_MalformedClockFails ==
  (call.fn = "timeToSeconds" /\ HasNonNumericComponent(call.time)) => call.threw

\* C16 as amended: such a call raises no error; it returns NaN.
C16_MalformedClockIsNaN ==
  (call.fn = "timeToSeconds" /\ HasNonNumericComponent(call.time)) =>
    /\ ~call.threw
    /\ IsNaN(ret)

\* the call timeToSeconds("1a:00", 2) has returned NaN
C16_Witness ==
  /\ call.fn = "timeToSeconds"
  /\ call.time = T1a00
  /\ call.period = 2
  /\ ~call.threw
  /\ IsNaN(ret)

\* the time-to-live an entry under the key starts with
EntryTTL(key) == IF key = ROSTER_KEY THEN 3600 ELSE 300

DateKey(game) ==
  LET c == game.gameDate
      v(k) == DigitVal(c[k])
  IN (v(1) * 1000 + v(2) * 100 + v(3) * 10 + v(4)) * 10000
       + (v(6) * 10 + v(7)) * 100 + v(9) * 10 + v(10)

Completed(schedule) ==
  {k \in 1..Len(schedule) : schedule[k].gameState \in {"OFF", "FINAL"}}

\* C18: GET /api/games answers with games of the schedule whose gameState is
\* 'OFF' or 'FINAL' only, ordered by gameDate descending, at most 20 of
\* them, and these are the 20 most recent completed games: no completed
\* game left out is more recent than a game of the answer.
C18_RecentCompletedGames ==
  (call.fn = "GET /api/games" /\ call.upstream.ok) =>
    LET schedule == call.upstream.data
        body == ret.body
        included == {k \in Completed(schedule) : \E i \in 1..Len(body) : body[i] = schedule[k]}
    IN /\ ret.status = 200
       /\ \A i \in 1..Len(body) :
            /\ body[i].gameState \in {"OFF", "FINAL"}
            /\ \E k \in Completed(schedule) : schedule[k] = body[i]
       /\ \A i, j \in 1..Len(body) : i < j => DateKey(body[i]) >= DateKey(body[j])
       /\ \A i, j \in 1..Len(body) : i # j => body[i].id # body[j].id
       /\ Len(body) = IF Cardinality(Completed(schedule)) < 20
                      THEN Cardinality(Completed(schedule)) ELSE 20
       /\ \A k \in Completed(schedule) \ included :
            \A i \in included : DateKey(schedule[k]) <= DateKey(schedule[i])

\* a schedule of 22 played games in chronological order: the answer holds 20
\* games, the game of 2026-01-16 first and the game of 2025-10-11 last
C18_Witness ==
  /\ call.fn = "GET /api/games"
  /\ call.upstream.ok
  /\ Cardinality(Completed(call.upstream.data)) = 22
  /\ Len(call.upstream.data) = 22
  /\ DateKey(call.upstream.data[1]) = 20251001
  /\ Len(ret.body) = 20
  /\ DateKey(ret.body[1]) = 20260116
  /\ DateKey(ret.body[20]) = 20251011

\* the Oilers of the roster
OilersIds(pbp) ==
  {pbp.rosterSpots[k].playerId : k \in {j \in 1..Len(pbp.rosterSpots) :
                                          pbp.rosterSpots[j].teamId = 22}}

\* the 'goal' plays whose scoringPlayerId is the player
GoalPlaysOf(pbp, playerId) ==
  {k \in 1..Len(pbp.plays) :
     /\ pbp.plays[k].typeDescKey = "goal"
     /\ pbp.plays[k].details # <<>>
     /\ pbp.plays[k].details[1].scoringPlayerId = <<playerId>>}

NameOf(pbp, playerId) ==
  LET spot == CHOOSE sp \in {pbp.rosterSpots[k] : k \in 1..Len(pbp.rosterSpots)} :
                sp.playerId = playerId
  IN spot.firstName \o <<" ">> \o spot.lastName

RECURSIVE SumGoals(_)
SumGoals(entries) ==
  IF entries = <<>> THEN 0 ELSE Head(entries).goals + SumGoals(Tail(entries))

\* C19: GET /api/games/:id/scorers lists each Oilers player (roster teamId
\* 22) who scored exactly once, with goals the number of 'goal' plays whose
\* scoringPlayerId is that player; other teams' goals and goals of scorers
\* missing from the roster are left out, the goals sum to the number of
\* Oilers goal plays, and the entries are in non-increasing order of goals.
C19_ScorersPerPlayer ==
  (call.fn = "GET /api/games/:id/scorers" /\ call.upstream.ok) =>
    LET pbp == call.upstream.data
        body == ret.body
        scorers == {id \in OilersIds(pbp) : GoalPlaysOf(pbp, id) # {}}
    IN /\ ret.status = 200
       /\ \E entryOf \in [scorers -> 1..Len(body)] :
            /\ \A id1, id2 \in scorers : id1 # id2 => entryOf[id1] # entryOf[id2]
            /\ \A i \in 1..Len(body) : \E id \in scorers : entryOf[id] = i
            /\ \A id \in scorers :
                 /\ body[entryOf[id]].name = NameOf(pbp, id)
                 /\ body[entryOf[id]].goals = Cardinality(GoalPlaysOf(pbp, id))
       /\ SumGoals(body) = Cardinality(UNION {GoalPlaysOf(pbp, id) : id \in OilersIds(pbp)})
       /\ \A i, j \in 1..Len(body) : i < j => body[i].goals >= body[j].goals

\* the play at place k is an attempt with both coordinates
IsLocatedShot(play) ==
  /\ play.typeDescKey \in {"shot-on-goal", "missed-shot", "blocked-shot", "goal"}
  /\ play.details # <<>>
  /\ play.details[1].xCoord # <<>>
  /\ play.details[1].yCoord # <<>>

\* the id of the shooter of a located shot, or 0
ShooterOf(play) ==
  IF play.details[1].shootingPlayerId # <<>> THEN play.details[1].shootingPlayerId[1]
  ELSE IF play.details[1].scoringPlayerId # <<>> THEN play.details[1].scoringPlayerId[1]
  ELSE 0

\* C20: the shot list of GET /api/games/:id/shots holds, in the order of the
\* plays, exactly one record for each play whose typeDescKey is
\* shot-on-goal, missed-shot, blocked-shot or goal and whose xCoord and
\* yCoord are both present (0 counts as present) and none for another play;
\* a record copies eventId, period, time, type, x and y of its play and
\* carries the shooter's name, 'Unknown' for a shooter not in the roster.
C20_ShotList ==
  (call.fn = "GET /api/games/:id/shots" /\ call.upstream.ok) =>
    LET pbp == call.upstream.data
        body == ret.body
        located == SelectSeq(pbp.plays, IsLocatedShot)
        rosterIds == {pbp.rosterSpots[k].playerId : k \in 1..Len(pbp.rosterSpots)}
    IN /\ ret.status = 200
       /\ Len(body) = Len(located)
       /\ \A k \in 1..Len(located) :
            /\ body[k].eventId = located[k].eventId
            /\ body[k].period = located[k].periodDescriptor.number
            /\ body[k].time = located[k].timeInPeriod
            /\ body[k].type = located[k].typeDescKey
            /\ body[k].x = located[k].details[1].xCoord[1]
            /\ body[k].y = located[k].details[1].yCoord[1]
            /\ body[k].shooterName =
                 IF ShooterOf(located[k]) \in rosterIds
                 THEN NameOf(pbp, ShooterOf(located[k]))
                 ELSE <<"U", "n", "k", "n", "o", "w", "n">>

\* a goal from the centre line (x = 0), a faceoff and a blocked shot without
\* a shooter: two records, the goal's with x = 0 and the scorer's name, the
\* blocked shot's with 'Unknown'
C20_Witness ==
  /\ call.fn = "GET /api/games/:id/shots"
  /\ call.upstream.ok
  /\ Len(call.upstream.data.plays) = 3
  /\ call.upstream.data.plays[1].typeDescKey = "goal"
  /\ call.upstream.data.plays[1].details # <<>>
  /\ call.upstream.data.plays[1].details[1].xCoord = <<0>>
  /\ call.upstream.data.plays[2].typeDescKey = "faceoff"
  /\ call.upstream.data.plays[3].typeDescKey = "blocked-shot"
  /\ Len(ret.body) = 2
  /\ ret.body[1].eventId = 101
  /\ ret.body[1].x = 0
  /\ ret.body[1].shooterName = <<"R", "y", "a", "n", " ", "S", "m", "i", "t", "h">>
  /\ ret.body[2].eventId = 103
  /\ ret.body[2].shooterName = <<"U", "n", "k", "n", "o", "w", "n">>

\* C21: while no valid entry exists for a key, concurrent getCachedOrFetch
\* calls with that key invoke the upstream fetch at most once: no two calls
\* wait for a fetch of the same key at the same time.
C21_SingleFetchPerKey ==
  \A c1, c2 \in Calls :
    (c1 # c2 /\ calls[c1].state = "awaiting" /\ calls[c2].state = "awaiting") =>
      calls[c1].key # calls[c2].key

\* the time-to-live the CACHE_TTL table lists for the data type of the key
TableTTL(key) == IF key = ROSTER_KEY THEN 3600 ELSE 600

\* C22: every cache entry is written with the time-to-live the CACHE_TTL
\* table lists for its data type (roster 3600 s, schedule 600 s).
C22_WrittenWithTableTTL ==
  [][\A c \in Calls :
       (calls[c].state = "awaiting" /\ calls'[c].state = "returned") =>
         cache'[calls[c].key][1].left = TableTTL(calls[c].key)
    ]_vars

\* the key whose route answers with the error message
KeyOfError(response) ==
  IF response.body.error = "Failed to fetch roster" THEN "oilers-roster"
  ELSE "oilers-schedule-20252026"

\* C26: if the upstream fetch rejects, getCachedOrFetch stores nothing (the
\* cache, the entries of other keys included, is unchanged), the route
\* answers HTTP 500 with an {error: ...} body, and the next request for
\* the same key invokes the upstream fetch again.
C26_RejectionNotCached ==
  [][\A c \in Calls :
       /\ (calls[c].state = "awaiting" /\ calls'[c].state = "rejected") => cache' = cache
       /\ (calls[c].state = "rejected" /\ calls'[c].state = "idle") =>
            /\ ret'.status = 500
            /\ DOMAIN ret'.body = {"error"}
            /\ cache' = cache
       /\ (/\ ret.status = 500
           /\ calls[c].state = "idle"
           /\ calls'[c].state # "idle"
           /\ calls'[c].key = KeyOfError(ret)) => calls'[c].state = "awaiting"
    ]_vars

\* C28: in the flow of GET /api/stats/corsi/:gameId the i-th point (0-based)
\* has homeCorsi = ceil((i + 1) / 2) and awayCorsi = floor((i + 1) / 2), so
\* their sum is i + 1 and differential = homeCorsi - awayCorsi is 1 at
\* every even index and 0 at every odd index, whatever the plays are; the
\* totals homeCorsi and awayCorsi of the response are the last point's.
C28_AlternatingFlow ==
  (call.fn = "GET /api/stats/corsi/:gameId" /\ call.upstream.ok) =>
    LET points == ret.body.flow
        attempts == {k \in 1..Len(call.upstream.data.plays) :
                       call.upstream.data.plays[k].typeDescKey \in
                         {"shot-on-goal", "missed-shot", "blocked-shot", "goal"}}
    IN /\ ret.status = 200
       /\ Len(points) = Cardinality(attempts)
       /\ \A i \in 0..(Len(points) - 1) :
            /\ points[i + 1].homeCorsi = (i + 2) \div 2
            /\ points[i + 1].awayCorsi = (i + 1) \div 2
            /\ points[i + 1].homeCorsi + points[i + 1].awayCorsi = i + 1
            /\ points[i + 1].differential = points[i + 1].homeCorsi - points[i + 1].awayCorsi
            /\ points[i + 1].differential = IF i % 2 = 0 THEN 1 ELSE 0
       /\ Len(points) > 0 =>
            /\ ret.body.homeCorsi = points[Len(points)].homeCorsi
            /\ ret.body.awayCorsi = points[Len(points)].awayCorsi

\* three goals in a row: the flow counts 1-0, 1-1, 2-1 and the totals are
\* 2 and 1
C28_Witness ==
  /\ call.fn = "GET /api/stats/corsi/:gameId"
  /\ call.upstream.ok
  /\ Len(call.upstream.data.plays) = 3
  /\ \A k \in 1..3 : call.upstream.data.plays[k].typeDescKey = "goal"
  /\ Len(ret.body.flow) = 3
  /\ ret.body.flow[3].homeCorsi = 2
  /\ ret.body.flow[3].awayCorsi = 1
  /\ ret.body.flow[2].differential = 0
  /\ ret.body.homeCorsi = 2
  /\ ret.body.awayCorsi = 1

\* C29: corsiPercent of the GET /api/stats/corsi/:gameId response is a
\* finite number in [0, 100] for every play-by-play, and 50 for a game
\* with no shot-attempt plays.
C29_CorsiPercentFinite ==
  (call.fn = "GET /api/stats/corsi/:gameId" /\ call.upstream.ok) =>
    /\ ret.body.corsiPercent # <<>>
    /\ LET percent == ret.body.corsiPercent[1]
       IN /\ percent.den # 0
          /\ 0 <= percent.num
          /\ percent.num <= 100 * percent.den
          /\ ret.body.flow = <<>> => percent = [num |-> 50, den |-> 1]

\* C30: for every schedule array of the upstream, whatever its order, the
\* games of GET /api/initial are the list GET /api/games answers with for
\* that schedule: the at most 20 most recent completed games, newest first.
C30_InitialGamesAsGames ==
  (call.fn = "GET /api/initial" /\ call.upstream.ok) =>
    ret.body.games = getGames(Resolved(call.upstream.data.scheduleData)).body

\* C23: useServerWarmup sends at most maxRetries + 1 = 4 health requests
\* over the lifetime of the mounted component, whatever fails.
C23_AtMostFourRequests == warmup.requests <= 4

\* C24: after a health ping has failed, no further health request is sent
\* until the 2000 ms timer scheduled for that failure has fired: a request
\* sent while a timer is pending is sent by a timer that fires.
C24_RetryAfterDelay ==
  [][(warmup'.requests # warmup.requests /\ warmup.timers # {}) =>
       warmup'.timers # warmup.timers]_vars

\* C25: if every health request settles, status leaves 'connecting'; it is
\* 'connected' as soon as a ping of an effect that is not cancelled has
\* succeeded, and 'error' exactly when the initial ping and the pings of all
\* 3 retries have failed (retryCount = 3); once status is 'connected' or
\* 'error', status and retryCount stay; and a ping that settles for a
\* cancelled effect leaves status as it is.
C25_WarmupOutcome ==
  /\ <>(warmup.status # "connecting")
  /\ [](warmup.status = "connected" <=>
          \E p \in warmup.settled : p.ok /\ ~p.cancelled)
  /\ [](warmup.status = "error" <=>
          /\ warmup.retryCount = 3
          /\ \A e \in 0..3 :
               [effect |-> e, timer |-> FALSE, ok |-> FALSE, cancelled |-> FALSE]
                 \in warmup.settled)
  /\ [][warmup.status # "connecting" =>
          /\ warmup'.status = warmup.status
          /\ warmup'.retryCount = warmup.retryCount]_vars
  /\ [][(\E p \in warmup'.settled \ warmup.settled : p.cancelled) =>
          warmup'.status = warmup.status]_vars

\* the initial ping and the three retries have failed, and so has the ping
\* of a timer left over from a cancelled effect: status is 'error'
C25_Witness ==
  /\ warmup.status = "error"
  /\ warmup.retryCount = 3
  /\ \E p \in warmup.settled : p.cancelled /\ ~p.ok
  /\ warmup.pings = {}

(***************************************************************************)
(* A useApiCall hook with a gameId dependency (useGameShots and the        *)
(* like).  api holds the gameId the component renders with (0 is null),    *)
(* the gameId the last effect saw, the three state values, the requests    *)
(* in flight, the number of refetch calls and how they settled.            *)
(***************************************************************************)

GameIds == {1, 2}

\* what the fetch function resolves with for a gameId: the body of the
\* route, and the empty list it gives without a request when gameId is null
responseFor(gameId) == [gameId |-> gameId]

\* setSelectedGameId(d) of the Dashboard: the component renders again
SelectGame(d) ==
  /\ api.effectDep # NoEffect
  /\ d # api.dep
  /\ api.refetches < MaxRequests
  /\ api' = [api EXCEPT !.dep = d]
  /\ UNCHANGED <<flowVars, pureVars, cacheVars, warmup>>

\* refetch is new with the dependency, so the effect runs it: loading is
\* set, and the fetch function either sends its request or, for a null
\* gameId, resolves at once, before anything else can happen
RunRefetch ==
  /\ api.effectDep # api.dep
  /\ LET id == api.refetches
     IN api' = IF api.dep = 0
               THEN [api EXCEPT !.effectDep = api.dep, !.refetches = @ + 1,
                                !.error = <<>>,
                                !.data = <<responseFor(0)>>,
                                !.loading = FALSE,
                                !.settled = @ \cup {[id |-> id, dep |-> 0, ok |-> TRUE]}]
               ELSE [api EXCEPT !.effectDep = api.dep, !.refetches = @ + 1,
                                !.loading = TRUE,
                                !.error = <<>>,
                                !.inflight = @ \cup {[id |-> id, dep |-> api.dep]}]
  /\ UNCHANGED <<flowVars, pureVars, cacheVars, warmup>>

\* the await of a request resolves: setData, then setLoading(false)
RequestResolves(r) ==
  /\ r \in api.inflight
  /\ api' = [api EXCEPT !.inflight = @ \ {r},
                        !.data = <<responseFor(r.dep)>>,
                        !.loading = FALSE,
                        !.settled = @ \cup {[id |-> r.id, dep |-> r.dep, ok |-> TRUE]}]
  /\ UNCHANGED <<flowVars, pureVars, cacheVars, warmup>>

\* the await of a request throws: setError, then setLoading(false)
RequestRejects(r) ==
  /\ r \in api.inflight
  /\ api' = [api EXCEPT !.inflight = @ \ {r},
                        !.error = <<"An error occurred">>,
                        !.loading = FALSE,
                        !.settled = @ \cup {[id |-> r.id, dep |-> r.dep, ok |-> FALSE]}]
  /\ UNCHANGED <<flowVars, pureVars, cacheVars, warmup>>

Requests == [id : 0..(MaxRequests - 1), dep : GameIds]

InitApi ==
  /\ api = [dep |-> 0, effectDep |-> NoEffect, data |-> <<>>, loading |-> TRUE,
            error |-> <<>>, inflight |-> {}, refetches |-> 0, settled |-> {}]
  /\ warmup = <<>>
  /\ homeShots = <<>>
  /\ awayShots = <<>>
  /\ flow = <<>>
  /\ returned = FALSE
  /\ call = [fn |-> "none"]
  /\ ret = 0
  /\ cache = <<>>
  /\ calls = <<>>

NextApi ==
  \/ \E d \in GameIds \cup {0} : SelectGame(d)
  \/ RunRefetch
  \/ \E r \in Requests : RequestResolves(r)
  \/ \E r \in Requests : RequestRejects(r)

SpecApi == InitApi /\ [][NextApi]_vars

\* C27: when the gameId changes while an earlier request is in flight, then
\* in whatever order the responses arrive, once all requests have settled
\* data holds the response for the gameId requested last, and loading is
\* true whenever a request for the current gameId is in flight.
C27_LatestResponseWins ==
  /\ (/\ api.inflight = {}
      /\ api.effectDep = api.dep
      /\ \E q \in api.settled : q.id = api.refetches - 1 /\ q.ok) =>
       api.data = <<[gameId |-> api.dep]>>
  /\ (api.effectDep = api.dep /\ \E r \in api.inflight : r.dep = api.dep) => api.loading

====
